---- MODULE Spec2Model ----
(***************************************************************************)
(* Paint Touch Tracker API (backend/main.py): the games and possessions    *)
(* tables of the SQLite store and the request handlers that read and write *)
(* them.  Every conn.execute of a handler is one step of the request that  *)
(* runs it, so that requests served by different worker threads interleave *)
(* between statements, as they do on the store.                            *)
(*                                                                         *)
(* Store semantics (sqlite3, Python's default transaction control):        *)
(*   - a SELECT outside a transaction reads the committed tables;          *)
(*   - the first INSERT of a connection opens a transaction and takes the  *)
(*     store's write lock; a second writer waits for the lock;             *)
(*   - `with conn:` commits on normal exit and rolls back on an exception; *)
(*   - games.id (AUTOINCREMENT) is one more than the largest id stored; a  *)
(*     rejected or rolled back insert consumes no id.  possessions.id is   *)
(*     read by no handler and is left out of the rows;                     *)
(*   - `with conn:` does not close the connection, and no handler calls    *)
(*     conn.close(): a connection stays open until the garbage collector   *)
(*     finalises the Connection object.                                    *)
(***************************************************************************)
EXTENDS Integers, Sequences, FiniteSets, TLC

\* ------------------------------------------------------------------ bounds
\* Number of requests served over a run with concurrent workers.  The requests
\* of a sequential client are not limited in number.
MaxCalls == 2
\* Longest possessions list of a request.
MaxLen == 2

\* Worker threads of the server; SeqProc is the one a sequential client talks to.
Procs == {"w1", "w2"}
SeqProc == "w1"

\* ------------------------------------------------------------------ inputs
GameCids == {"g1", "g2"}

\* GameIn (pydantic model): the submissions a client can send.  "g1" is sent
\* with two different sets of field values.
GameIn ==
    { [client_id |-> "g1", name |-> "Home Opener", opponent |-> "Rivals",
       game_date |-> "2024-01-10"],
      [client_id |-> "g1", name |-> "Away Game", opponent |-> "",
       game_date |-> "2024-02-02"],
      [client_id |-> "g2", name |-> "Home Opener", opponent |-> "Rivals",
       game_date |-> "2024-01-10"] }

\* Optional[...] values: <<>> is None, <<v>> is the value v.
None == <<>>
Some(v) == <<v>>

\* PossessionIn (pydantic model): the submissions a client can send.  "p1" is
\* sent with two different sets of field values.
PossessionIn ==
    { [client_id |-> "p1", number |-> 2, quarter |-> 1, paint_touch |-> TRUE,
       outcome |-> "make", points |-> Some(2), notes |-> Some(""), timestamp |-> "t1"],
      [client_id |-> "p1", number |-> 1, quarter |-> 2, paint_touch |-> FALSE,
       outcome |-> "miss", points |-> Some(0), notes |-> None, timestamp |-> "t2"],
      [client_id |-> "p2", number |-> 1, quarter |-> 1, paint_touch |-> TRUE,
       outcome |-> "turnover", points |-> None, notes |-> Some("late"), timestamp |-> "t3"] }

PossCids == { x.client_id : x \in PossessionIn }

\* List[PossessionIn] of a request body.
PossLists == UNION { [1..n -> PossessionIn] : n \in 0..MaxLen }

\* The submissions of clients whose requests are served concurrently.
ConcGameIn == { g \in GameIn : g.name = "Home Opener" }
ConcPossessionIn == { x \in PossessionIn : x.paint_touch }
ConcLists == UNION { [1..n -> ConcPossessionIn] : n \in 0..MaxLen }

\* Readings of the server clock, datetime.utcnow().isoformat().  The handlers
\* only compare created_at values (ORDER BY), and no more rows than client_ids
\* are stored, so this many readings give every order and every tie.
Times == 1..Cardinality(GameCids)

\* game_id path parameter: ids of stored games and ids of no game.
GameIds == 1..Cardinality(GameCids)

NoGame == [client_id |-> "", name |-> "", opponent |-> "", game_date |-> ""]

\* ------------------------------------------------------------------- state
VARIABLES
    games,        \* committed rows of table games, in rowid order
    possessions,  \* committed rows of table possessions, in rowid order
    dirty,        \* the tables as written by the open transaction, not yet committed
    lock,         \* the request holding the store's write lock, or NoProc
    req,          \* per worker: the request it serves, its locals, its response
    acked,        \* per game client_id: the id create_game first returned for it, 0 if none
    calls,        \* requests served so far, where they are limited
    schema        \* the tables, index and added column the database file has

vars == <<games, possessions, dirty, lock, req, acked, calls, schema>>

\* What init_db creates: the two tables (possessions with its points column),
\* the index, and the points column when it has to be added.
FullSchema == {"games", "possessions", "idx_possessions_game_id", "points"}

NoProc == "none"
NoDirty == [games |-> <<>>, possessions |-> <<>>]

NoTables == [games |-> <<>>, possessions |-> <<>>]
NoResponse == [id |-> 0, created |-> FALSE, inserted |-> 0]

\* A worker with no request.  Of a request it keeps what was sent (op, game,
\* game_id, list), the handler's locals (pc, id, created, created_at, i,
\* inserted) and the
\* response (status, id, created, inserted, rows), and for the properties:
\*   pre       the committed tables when the request arrived,
\*   prior     the id create_game had returned for the client_id before,
\*   rejected  whether the store rejected the request's INSERT INTO games,
\*   nth       1 for a request sent once, 2 for one the client has sent again,
\*   first     the response to the first of these deliveries,
\*   retry     whether the request repeats a sync that failed in its
\*             possession step after its game step had created the game,
\*   conns     the connections get_conn() has opened for the request that
\*             have not been closed.
Idle ==
    [op |-> "", pc |-> "idle", game |-> NoGame, game_id |-> 0, list |-> <<>>,
     created |-> FALSE, i |-> 0, inserted |-> 0, status |-> "", id |-> 0,
     created_at |-> 0, rows |-> <<>>, rejected |-> FALSE, prior |-> 0,
     pre |-> NoTables,
     nth |-> 0, first |-> NoResponse, retry |-> FALSE, conns |-> 0]

\* The server has started on a new database file: init_db has created the
\* tables, no request has been served.
Init ==
    /\ games = <<>>
    /\ possessions = <<>>
    /\ dirty = NoDirty
    /\ lock = NoProc
    /\ req = [p \in Procs |-> Idle]
    /\ acked = [c \in GameCids |-> 0]
    /\ calls = 0
    /\ schema = FullSchema

\* ----------------------------------------------------------- store helpers
Range(s) == { s[k] : k \in DOMAIN s }

\* Mutant: a connection that goes on reading the possessions table as it was
\* when its request arrived, whatever has been committed since.
PossSeen_Stale(p) == IF lock = p THEN dirty.possessions ELSE req[p].pre.possessions

\* The tables as the connection of request p reads them: the committed rows,
\* and the rows of its own open transaction.
GamesSeen(p) == IF lock = p THEN dirty.games ELSE games
PossSeen(p) == IF lock = p THEN dirty.possessions ELSE possessions

\* The first write of a connection opens a transaction on the committed tables.
Begin(p) == IF lock = p THEN dirty ELSE [games |-> games, possessions |-> possessions]

\* INTEGER PRIMARY KEY AUTOINCREMENT: one more than the largest id of the table.
MaxId(table) ==
    IF table = <<>> THEN 0
    ELSE CHOOSE m \in { table[k].id : k \in DOMAIN table } :
             \A k \in DOMAIN table : table[k].id <= m
NextId(table) == MaxId(table) + 1

\* Mutant: the client_id column without its UNIQUE constraint.
UniqueViolation_Unconstrained(table, c) == FALSE

\* client_id TEXT UNIQUE: whether inserting client_id c violates the constraint.
UniqueViolation(table, c) == \E k \in DOMAIN table : table[k].client_id = c

\* Mutant: the lookup returns the id of the newest game instead of the id of
\* the game with the client_id.
SelectGameByCid_Newest(table, c) ==
    IF \E k \in DOMAIN table : table[k].client_id = c THEN Len(table) ELSE 0

\* SELECT id FROM games WHERE client_id = ? ... fetchone(): the id of the first
\* row found, 0 for None.
SelectGameByCid(table, c) ==
    LET found == { k \in DOMAIN table : table[k].client_id = c }
    IN  IF found = {} THEN 0
        ELSE table[CHOOSE k \in found : \A j \in found : k <= j].id

\* Mutant: add_possessions and export_csv without the lookup of the game.
GameExists_Any(table, gid) == TRUE

\* SELECT id FROM games WHERE id = ? ... fetchone(): whether a row is found.
GameExists(table, gid) == \E k \in DOMAIN table : table[k].id = gid

\* Mutant: a with block that leaves the transaction uncommitted; it is
\* discarded with the connection.
Commit_Discard(p) ==
    /\ UNCHANGED <<games, possessions>>
    /\ IF lock = p
       THEN dirty' = NoDirty /\ lock' = NoProc
       ELSE UNCHANGED <<dirty, lock>>

\* `with conn:` leaving normally commits the open transaction of request p.
Commit(p) ==
    IF lock = p
    THEN /\ games' = dirty.games
         /\ possessions' = dirty.possessions
         /\ dirty' = NoDirty
         /\ lock' = NoProc
    ELSE UNCHANGED <<games, possessions, dirty, lock>>

\* `with conn:` left by an exception rolls the open transaction of p back.
Rollback(p) ==
    /\ UNCHANGED <<games, possessions>>
    /\ IF lock = p
       THEN dirty' = NoDirty /\ lock' = NoProc
       ELSE UNCHANGED <<dirty, lock>>

\* ------------------------------------------------------------ the requests
Running(p) == req[p].pc \notin {"idle", "done"}
Done(p) == req[p].pc = "done"
Ok(p) == Done(p) /\ req[p].status = "ok"

\* What a request leaves behind when it returns or raises: what it was sent
\* and its response.  Its locals are gone.
Respond(p, status, fields) ==
    [ k \in DOMAIN Idle |->
        IF k = "pc" THEN "done"
        ELSE IF k = "status" THEN status
        ELSE IF k \in DOMAIN fields THEN fields[k]
        ELSE IF k = "game_id" THEN (IF req[p].op = "sync" THEN 0 ELSE req[p].game_id)
        ELSE IF k \in {"op", "game", "list", "pre", "nth", "first", "retry", "conns"}
             THEN req[p][k]
        ELSE Idle[k] ]

Snapshot == [games |-> games, possessions |-> possessions]

\* One more request is served.
Served(limited) ==
    /\ limited => calls < MaxCalls
    /\ calls' = IF limited THEN calls + 1 ELSE calls

\* A request arrives at worker p: the pool hands it to its first free worker.
FirstFree(p) ==
    /\ req[p].pc = "idle"
    /\ p = SeqProc \/ req[SeqProc].pc # "idle"

\* Requests are served once startup has run init_db to its end.
Serving == schema = FullSchema

Accept(p, limited, op, first_pc, game, gid, list) ==
    /\ Serving
    /\ FirstFree(p)
    /\ Served(limited)
    /\ req' = [req EXCEPT ![p] =
                 [Idle EXCEPT !.op = op, !.pc = first_pc, !.game = game,
                              !.game_id = gid, !.list = list, !.pre = Snapshot,
                              !.nth = 1]]
    /\ UNCHANGED <<games, possessions, dirty, lock, acked, schema>>

\* POST /games
CallCreateGame(p, limited, G) ==
    \E g \in G : Accept(p, limited, "create_game", "cg_select", g, 0, <<>>)

\* Mutant: created is reported as true whenever a game id is returned.
CreateGameReturns_AlwaysCreated(p, id, created) ==
    IF req[p].op = "sync"
    THEN [req[p] EXCEPT !.pc = "ap_select", !.id = id, !.game_id = id,
                        !.created = TRUE,
                        !.prior = acked[req[p].game.client_id], !.conns = 1]
    ELSE Respond(p, "ok", [id |-> id, created |-> TRUE,
                           prior |-> acked[req[p].game.client_id], conns |-> 1])

\* create_game returns {id, created}: to the client, or to sync, which goes on
\* to add_possessions(game_id, payload.possessions).  The connection of its
\* with block is the one create_game has opened; the with block does not
\* close it.
CreateGameReturns(p, id, created) ==
    IF req[p].op = "sync"
    THEN [req[p] EXCEPT !.pc = "ap_select", !.id = id, !.game_id = id,
                        !.created = created,
                        !.prior = acked[req[p].game.client_id], !.conns = 1]
    ELSE Respond(p, "ok", [id |-> id, created |-> created,
                           prior |-> acked[req[p].game.client_id], conns |-> 1])

Ack(p, id) ==
    [acked EXCEPT ![req[p].game.client_id] = IF @ = 0 THEN id ELSE @]

\* datetime.utcnow(): the clock does not run backwards, so a reading is not
\* before any created_at stored.
Now == { t \in Times : \A k \in DOMAIN games : games[k].created_at <= t }

\* Mutant: an upsert, which overwrites the stored game with the submission.
CgSelect_Upsert(p) ==
    /\ req[p].pc = "cg_select"
    /\ LET g == req[p].game
           existing == SelectGameByCid(GamesSeen(p), g.client_id)
       IN  IF existing # 0
           THEN /\ req' = [req EXCEPT ![p] = CreateGameReturns(p, existing, FALSE)]
                /\ acked' = Ack(p, existing)
                /\ games' = [ k \in DOMAIN games |->
                                IF games[k].client_id = g.client_id
                                THEN [games[k] EXCEPT !.name = g.name,
                                                      !.opponent = g.opponent,
                                                      !.game_date = g.game_date]
                                ELSE games[k] ]
           ELSE /\ \E t \in Now :
                     req' = [req EXCEPT ![p].pc = "cg_insert", ![p].created_at = t,
                                        ![p].conns = 1]
                /\ UNCHANGED <<acked, games>>
    /\ UNCHANGED <<possessions, dirty, lock, calls, schema>>

\* with get_conn() as conn: existing = SELECT id FROM games WHERE client_id = ?
\* if existing: return
\* Otherwise the arguments of the INSERT are evaluated, the clock among them.
CgSelect(p) ==
    /\ req[p].pc = "cg_select"
    /\ LET existing == SelectGameByCid(GamesSeen(p), req[p].game.client_id)
       IN  IF existing # 0
           THEN /\ req' = [req EXCEPT ![p] = CreateGameReturns(p, existing, FALSE)]
                /\ acked' = Ack(p, existing)
           ELSE /\ \E t \in Now :
                     req' = [req EXCEPT ![p].pc = "cg_insert", ![p].created_at = t,
                                        ![p].conns = 1]
                /\ UNCHANGED acked
    /\ UNCHANGED <<games, possessions, dirty, lock, calls, schema>>

\* The row INSERT INTO games (...) VALUES (...) stores at time t.
GameRow(table, g, t) ==
    [id |-> NextId(table), client_id |-> g.client_id, name |-> g.name,
     opponent |-> g.opponent, game_date |-> g.game_date, created_at |-> t]

\* INSERT INTO games ...: waits for the write lock; the UNIQUE constraint on
\* client_id raises sqlite3.IntegrityError, which create_game does not catch.
CgInsert(p) ==
    /\ req[p].pc = "cg_insert"
    /\ lock = NoProc
    /\ IF UniqueViolation(games, req[p].game.client_id)
       THEN /\ req' = [req EXCEPT ![p] =
                         Respond(p, "integrity_error", [rejected |-> TRUE])]
            /\ UNCHANGED <<dirty, lock>>
       ELSE /\ dirty' = [Begin(p) EXCEPT !.games =
                           Append(@, GameRow(games, req[p].game, req[p].created_at))]
            /\ lock' = p
            /\ req' = [req EXCEPT ![p].pc = "cg_rowid", ![p].created_at = 0]
    /\ UNCHANGED <<games, possessions, acked, calls, schema>>

\* Mutant: sync runs its two steps in one transaction; the game row is
\* committed with the possessions.
CgRowid_OneTransaction(p) ==
    /\ req[p].pc = "cg_rowid"
    /\ LET game_id == MaxId(GamesSeen(p))
       IN  /\ req' = [req EXCEPT ![p] = CreateGameReturns(p, game_id, TRUE)]
           /\ acked' = Ack(p, game_id)
    /\ IF req[p].op = "sync"
       THEN UNCHANGED <<games, possessions, dirty, lock>>
       ELSE Commit(p)
    /\ UNCHANGED <<calls, schema>>

\* game_id = SELECT last_insert_rowid(); the with block commits; return
CgRowid(p) ==
    /\ req[p].pc = "cg_rowid"
    /\ LET game_id == MaxId(GamesSeen(p))
       IN  /\ req' = [req EXCEPT ![p] = CreateGameReturns(p, game_id, TRUE)]
           /\ acked' = Ack(p, game_id)
    /\ Commit(p)
    /\ UNCHANGED <<calls, schema>>

\* POST /games/{game_id}/possessions
CallAddPossessions(p, limited, L) ==
    \E gid \in GameIds, l \in L :
        Accept(p, limited, "add_possessions", "ap_select", NoGame, gid, l)

\* POST /sync
CallSync(p, limited, G, L) ==
    \E g \in G, l \in L : Accept(p, limited, "sync", "cg_select", g, 0, l)

\* if not possessions: return {"inserted": 0}
\* with get_conn() as conn:
\* game = SELECT id FROM games WHERE id = ?; if not game: raise HTTPException(404)
ApSelect(p) ==
    /\ req[p].pc = "ap_select"
    /\ req' = [req EXCEPT ![p] =
                 IF req[p].list = <<>>
                 THEN Respond(p, "ok", [id |-> req[p].id, created |-> req[p].created,
                                        prior |-> req[p].prior, inserted |-> 0])
                 ELSE IF ~GameExists(GamesSeen(p), req[p].game_id)
                 THEN Respond(p, "not_found", [conns |-> req[p].conns + 1])
                 ELSE [req[p] EXCEPT !.pc = "ap_insert", !.i = 1, !.inserted = 0,
                                     !.conns = @ + 1]]
    /\ UNCHANGED <<games, possessions, dirty, lock, acked, calls, schema>>

\* 1 if possession.paint_touch else 0
StoredBool(b) == IF b THEN 1 ELSE 0

\* The row INSERT ... INTO possessions (...) VALUES (...) stores for possession x.
PossRow(gid, x) ==
    [client_id |-> x.client_id, game_id |-> gid,
     number |-> x.number, quarter |-> x.quarter,
     paint_touch |-> StoredBool(x.paint_touch), outcome |-> x.outcome,
     points |-> x.points, notes |-> x.notes, timestamp |-> x.timestamp]

\* Mutant: a plain INSERT into a table without the UNIQUE constraint.
InsertOrIgnore_Always(table, gid, x) == Append(table, PossRow(gid, x))

\* Mutant: INSERT OR REPLACE, which drops the stored row for the new one.
InsertOrIgnore_Replace(table, gid, x) ==
    Append(SelectSeq(table, LAMBDA r : r.client_id # x.client_id), PossRow(gid, x))

\* INSERT OR IGNORE INTO possessions: the rows of the table after the statement;
\* a client_id that is stored already makes the statement a no-op.
InsertOrIgnore(table, gid, x) ==
    IF UniqueViolation(table, x.client_id)
    THEN table
    ELSE Append(table, PossRow(gid, x))

\* Mutant: every statement is counted, also the ignored ones.
Counted_Every(inserted, rowcount) == inserted + 1

\* if cursor.rowcount: inserted += 1
Counted(inserted, rowcount) == IF rowcount # 0 THEN inserted + 1 ELSE inserted

\* Mutant: a connection in autocommit mode; every INSERT is committed as it runs.
ApInsert_Autocommit(p) ==
    /\ req[p].pc = "ap_insert"
    /\ lock = NoProc
    /\ LET x == req[p].list[req[p].i]
           after == InsertOrIgnore(possessions, req[p].game_id, x)
           rowcount == IF after = possessions THEN 0 ELSE 1
       IN  /\ possessions' = after
           /\ req' = [req EXCEPT ![p].inserted = Counted(@, rowcount),
                                 ![p].i = @ + 1,
                                 ![p].pc = IF req[p].i = Len(req[p].list)
                                           THEN "ap_commit" ELSE "ap_insert"]
    /\ UNCHANGED <<games, dirty, lock, acked, calls, schema>>

\* One round of the loop: the INSERT OR IGNORE of possessions[i], which waits for
\* the write lock; cursor.rowcount is the number of rows the statement stored.
ApInsert(p) ==
    /\ req[p].pc = "ap_insert"
    /\ lock \in {NoProc, p}
    /\ LET x == req[p].list[req[p].i]
           before == PossSeen(p)
           after == InsertOrIgnore(before, req[p].game_id, x)
           rowcount == IF after = before THEN 0 ELSE 1
       IN  /\ dirty' = [Begin(p) EXCEPT !.possessions = after]
           /\ lock' = p
           /\ req' = [req EXCEPT ![p].inserted = Counted(@, rowcount),
                                 ![p].i = @ + 1,
                                 ![p].pc = IF req[p].i = Len(req[p].list)
                                           THEN "ap_commit" ELSE "ap_insert"]
    /\ UNCHANGED <<games, possessions, acked, calls, schema>>

\* The with block commits; return {"inserted": inserted}.  sync wraps it into
\* {game_id, created, inserted_possessions}.
ApCommit(p) ==
    /\ req[p].pc = "ap_commit"
    /\ Commit(p)
    /\ req' = [req EXCEPT ![p] =
                 Respond(p, "ok", [id |-> req[p].id, created |-> req[p].created,
                                   prior |-> req[p].prior,
                                   inserted |-> req[p].inserted])]
    /\ UNCHANGED <<acked, calls, schema>>

\* GET /games/{game_id}/possessions.csv
CallExportCsv(p, limited) ==
    \E gid \in GameIds : Accept(p, limited, "export_csv", "ex_game", NoGame, gid, <<>>)

\* with get_conn() as conn:
\* game = SELECT * FROM games WHERE id = ?; if not game: raise HTTPException(404)
ExGame(p) ==
    /\ req[p].pc = "ex_game"
    /\ req' = [req EXCEPT ![p] =
                 IF ~GameExists(GamesSeen(p), req[p].game_id)
                 THEN Respond(p, "not_found", [conns |-> 1])
                 ELSE [req[p] EXCEPT !.pc = "ex_rows", !.conns = 1]]
    /\ UNCHANGED <<games, possessions, dirty, lock, acked, calls, schema>>

\* The orders in which the store may return the rows of `table` at the indices
\* in `idx`, before ORDER BY has its say.
RowOrders(table, idx) ==
    LET n == Cardinality(idx)
        perms == { f \in [1..n -> idx] : \A a, b \in 1..n : a # b => f[a] # f[b] }
    IN  { [k \in 1..n |-> table[f[k]]] : f \in perms }

\* Mutant: the SELECT without its ORDER BY clause.
NumberAsc_Unordered(a, b) == TRUE

\* Mutant: the games ordered oldest first.
CreatedDesc_Asc(a, b) == a.created_at <= b.created_at

\* ORDER BY number ASC, ORDER BY created_at DESC: whether row a may precede
\* row b.  The order of rows with equal keys is the store's choice.
NumberAsc(a, b) == a.number <= b.number
CreatedDesc(a, b) == a.created_at >= b.created_at

\* SELECT number, ... FROM possessions WHERE game_id = ? ORDER BY number ASC
SelectPossessions(table, gid) ==
    { s \in RowOrders(table, { k \in DOMAIN table : table[k].game_id = gid }) :
        \A a, b \in DOMAIN s : a < b => NumberAsc(s[a], s[b]) }

\* SELECT * FROM games ORDER BY created_at DESC
SelectGames(table) ==
    { s \in RowOrders(table, DOMAIN table) :
        \A a, b \in DOMAIN s : a < b => CreatedDesc(s[a], s[b]) }

\* str() of the integers the csv writer is given.
Str(n) ==
    CASE n = 0 -> "0" [] n = 1 -> "1" [] n = 2 -> "2" [] n = 3 -> "3"
      [] n = 4 -> "4" [] OTHER -> "?"

\* Mutant: the points field written as `row["points"] or ""`.
CsvRow_Falsy(row) ==
    << Str(row.number),
       Str(row.quarter),
       IF row.paint_touch # 0 THEN "yes" ELSE "no",
       IF row.points # None /\ row.points # Some(0) THEN Str(row.points[1]) ELSE "",
       row.outcome,
       IF row.notes # None /\ row.notes # Some("") THEN row.notes[1] ELSE "",
       row.timestamp >>

\* One data row of the CSV, as the list given to writer.writerow.
CsvRow(row) ==
    << Str(row.number),
       Str(row.quarter),
       IF row.paint_touch # 0 THEN "yes" ELSE "no",
       IF row.points # None THEN Str(row.points[1]) ELSE "",
       row.outcome,
       IF row.notes # None /\ row.notes # Some("") THEN row.notes[1] ELSE "",
       row.timestamp >>

\* rows = SELECT ... ORDER BY number ASC; for row in rows: writer.writerow([...])
ExRows(p) ==
    /\ req[p].pc = "ex_rows"
    /\ \E rows \in SelectPossessions(PossSeen(p), req[p].game_id) :
         req' = [req EXCEPT ![p] =
                   Respond(p, "ok", [rows |-> [k \in DOMAIN rows |-> CsvRow(rows[k])]])]
    /\ UNCHANGED <<games, possessions, dirty, lock, acked, calls, schema>>

\* GET /games
CallListGames(p, limited) == Accept(p, limited, "list_games", "lg_select", NoGame, 0, <<>>)

\* with get_conn() as conn:
\* rows = SELECT * FROM games ORDER BY created_at DESC; return [dict(row) ...]
LgSelect(p) ==
    /\ req[p].pc = "lg_select"
    /\ \E rows \in SelectGames(GamesSeen(p)) :
         req' = [req EXCEPT ![p] = Respond(p, "ok", [rows |-> rows, conns |-> 1])]
    /\ UNCHANGED <<games, possessions, dirty, lock, acked, calls, schema>>

\* The statements at which a handler enters its with block: get_conn() opens a
\* connection just before them.
FirstStatements == {"cg_select", "ap_select", "ex_game", "lg_select", "id_games"}

\* A statement or the commit fails in the store (disk error, lock timeout):
\* the exception leaves the with block, which rolls back, and the request
\* fails with a server error.  add_possessions runs no statement for an empty
\* list.  A sync that fails in add_possessions has its game step behind it.
StorageError(p) ==
    /\ Running(p)
    /\ ~(req[p].pc = "ap_select" /\ req[p].list = <<>>)
    /\ Rollback(p)
    /\ req' = [req EXCEPT ![p] =
                 Respond(p, "storage_error",
                         [conns |-> IF req[p].pc \in FirstStatements
                                    THEN req[p].conns + 1 ELSE req[p].conns,
                          id |-> req[p].id, created |-> req[p].created])]
    /\ UNCHANGED <<acked, calls, schema>>

\* The client_ids of a list, and those stored in a table.
ListCids(list) == { list[k].client_id : k \in DOMAIN list }
Cids(table) == { table[k].client_id : k \in DOMAIN table }

\* Whether request r carried only new client_ids when it arrived: for sync a
\* game client_id and possession client_ids that were not stored, for
\* add_possessions pairwise distinct client_ids that were not stored, sent
\* for a stored game.
Fresh(r) ==
    /\ ListCids(r.list) \cap Cids(r.pre.possessions) = {}
    /\ r.op = "sync" => r.game.client_id \notin Cids(r.pre.games)
    /\ r.op = "add_possessions" =>
          /\ GameExists(r.pre.games, r.game_id)
          /\ Cardinality(ListCids(r.list)) = Len(r.list)

\* The client sends a payload it just got a response to once more, unchanged
\* (at-least-once delivery).  The deliveries followed here are those of a
\* payload that was new when first delivered; any other redelivery is a
\* request like any.
Redeliver(p, limited) ==
    /\ Ok(p)
    /\ req[p].op \in {"add_possessions", "sync"}
    /\ req[p].nth = 1 => Fresh(req[p])
    /\ Served(limited)
    /\ LET r == req[p]
       IN  req' = [req EXCEPT ![p] =
                     [Idle EXCEPT !.op = r.op,
                                  !.pc = IF r.op = "sync" THEN "cg_select"
                                         ELSE "ap_select",
                                  !.game = r.game, !.game_id = r.game_id,
                                  !.list = r.list, !.pre = Snapshot, !.nth = 2,
                                  !.first = IF r.nth = 1
                                            THEN [id |-> r.id, created |-> r.created,
                                                  inserted |-> r.inserted]
                                            ELSE r.first]]
    /\ UNCHANGED <<games, possessions, dirty, lock, acked, schema>>

\* The client sends a sync payload again whose first delivery failed in the
\* possession step after the game step had created the game.
Retry(p, limited) ==
    /\ Done(p) /\ req[p].op = "sync" /\ req[p].status = "storage_error"
    /\ req[p].created /\ Fresh(req[p])
    /\ Served(limited)
    /\ req' = [req EXCEPT ![p] =
                 [Idle EXCEPT !.op = "sync", !.pc = "cg_select",
                              !.game = req[p].game, !.list = req[p].list,
                              !.pre = Snapshot, !.nth = 1, !.retry = TRUE]]
    /\ UNCHANGED <<games, possessions, dirty, lock, acked, schema>>

\* ---------------------------------------------------------------- init_db
\* startup(): init_db() runs when the server process starts, on the database
\* file it finds, and again at every restart.
CallInitDb(p) ==
    /\ req[p].pc = "idle"
    /\ req' = [req EXCEPT ![p] =
                 [Idle EXCEPT !.op = "init_db", !.pc = "id_games",
                              !.pre = Snapshot, !.nth = 1]]
    /\ UNCHANGED <<games, possessions, dirty, lock, acked, calls, schema>>

\* A schema statement that changes the database file needs the write lock; one
\* that finds its object in place (IF NOT EXISTS) does nothing.  Python's
\* sqlite3 opens no transaction for schema statements: each is committed when
\* it has run.
\* with get_conn() as conn: CREATE TABLE IF NOT EXISTS games (...)
IdGames(p) ==
    /\ req[p].pc = "id_games"
    /\ "games" \in schema \/ lock = NoProc
    /\ schema' = schema \cup {"games"}
    /\ req' = [req EXCEPT ![p].pc = "id_possessions", ![p].conns = 1]
    /\ UNCHANGED <<games, possessions, dirty, lock, acked, calls>>

\* CREATE TABLE IF NOT EXISTS possessions (..., points INTEGER, ...)
IdPossessions(p) ==
    /\ req[p].pc = "id_possessions"
    /\ "possessions" \in schema \/ lock = NoProc
    /\ schema' = IF "possessions" \in schema THEN schema
                  ELSE schema \cup {"possessions", "points"}
    /\ req' = [req EXCEPT ![p].pc = "id_index"]
    /\ UNCHANGED <<games, possessions, dirty, lock, acked, calls>>

\* CREATE INDEX IF NOT EXISTS idx_possessions_game_id ON possessions(game_id)
IdIndex(p) ==
    /\ req[p].pc = "id_index"
    /\ "idx_possessions_game_id" \in schema \/ lock = NoProc
    /\ schema' = schema \cup {"idx_possessions_game_id"}
    /\ req' = [req EXCEPT ![p].pc = "id_columns"]
    /\ UNCHANGED <<games, possessions, dirty, lock, acked, calls>>

\* columns = PRAGMA table_info(possessions); if "points" not in columns: ...
\* With the column in place init_db returns.
IdColumns(p) ==
    /\ req[p].pc = "id_columns"
    /\ req' = [req EXCEPT ![p] =
                 IF "points" \notin schema
                 THEN [req[p] EXCEPT !.pc = "id_alter"]
                 ELSE Respond(p, "ok", << >>)]
    /\ UNCHANGED <<games, possessions, dirty, lock, acked, calls, schema>>

\* A row of a possessions table that has no points column, given the column:
\* the rows stored before the column was added read NULL in it.
WithPoints(row) ==
    [client_id |-> row.client_id, game_id |-> row.game_id,
     number |-> row.number, quarter |-> row.quarter,
     paint_touch |-> row.paint_touch, outcome |-> row.outcome,
     points |-> None, notes |-> row.notes, timestamp |-> row.timestamp]

\* Mutant: the table is dropped and created again with the column.
AddPointsColumn_Recreate(table) == <<>>

\* ALTER TABLE possessions ADD COLUMN points INTEGER: the rows of the table
\* after the statement.
AddPointsColumn(table) == [k \in DOMAIN table |-> WithPoints(table[k])]

\* ALTER TABLE possessions ADD COLUMN points INTEGER; init_db returns.  The
\* statement fails with "duplicate column name" if the column has been added
\* since the PRAGMA.
IdAlter(p) ==
    /\ req[p].pc = "id_alter"
    /\ lock = NoProc
    /\ IF "points" \in schema
       THEN /\ req' = [req EXCEPT ![p] = Respond(p, "operational_error", << >>)]
            /\ UNCHANGED <<possessions, schema>>
       ELSE /\ schema' = schema \cup {"points"}
            /\ possessions' = AddPointsColumn(possessions)
            /\ req' = [req EXCEPT ![p] = Respond(p, "ok", << >>)]
    /\ UNCHANGED <<games, dirty, lock, acked, calls>>

InitDbStep(p) ==
    \/ CallInitDb(p)
    \/ IdGames(p)
    \/ IdPossessions(p)
    \/ IdIndex(p)
    \/ IdColumns(p)
    \/ IdAlter(p)

\* The response is sent; the worker is free again.  The connections the
\* handler has left open are the garbage collector's to close.
Finish(p) ==
    /\ req[p].pc = "done"
    /\ req' = [req EXCEPT ![p] = Idle]
    /\ UNCHANGED <<games, possessions, dirty, lock, acked, calls, schema>>

Step(p, limited, G, L) ==
    \/ CallCreateGame(p, limited, G)
    \/ CallAddPossessions(p, limited, L)
    \/ CallSync(p, limited, G, L)
    \/ CallExportCsv(p, limited)
    \/ CallListGames(p, limited)
    \/ CgSelect(p)
    \/ CgInsert(p)
    \/ CgRowid(p)
    \/ ApSelect(p)
    \/ ApInsert(p)
    \/ ApCommit(p)
    \/ ExGame(p)
    \/ ExRows(p)
    \/ LgSelect(p)
    \/ StorageError(p)
    \/ Redeliver(p, limited)
    \/ Retry(p, limited)
    \/ Finish(p)

\* Requests served by concurrent workers.
Next == \E p \in Procs : Step(p, TRUE, ConcGameIn, ConcLists)

Spec == Init /\ [][Next]_vars

\* Requests of one client that waits for each response before its next request.
NextSeq == Step(SeqProc, FALSE, GameIn, PossLists)

SeqSpec == Init /\ [][NextSeq]_vars

\* ---------------------------------------------------------------- startup
\* The game and the possessions an earlier run of the server has left in the
\* database file.
StoredGame ==
    GameRow(<<>>, CHOOSE g \in ConcGameIn : g.client_id = "g1", 1)
StoredPossessions ==
    LET x == CHOOSE y \in ConcPossessionIn : y.client_id = "p1"
    IN  { <<>>, << PossRow(1, x) >> }

\* A possessions row of a deployment whose table has no points column.
LegacyRow(row) ==
    [client_id |-> row.client_id, game_id |-> row.game_id,
     number |-> row.number, quarter |-> row.quarter,
     paint_touch |-> row.paint_touch, outcome |-> row.outcome,
     notes |-> row.notes, timestamp |-> row.timestamp]

\* The database files the server may start on: none (a new file), the file of
\* a deployment whose possessions table has no points column, with or without
\* the index, and a file this version of init_db has set up.
StartDatabases ==
    { [schema |-> {}, games |-> <<>>, possessions |-> <<>>] }
    \cup { [schema |-> sch, games |-> << StoredGame >>,
            possessions |-> [k \in DOMAIN rows |-> LegacyRow(rows[k])]] :
             sch \in { {"games", "possessions"},
                       {"games", "possessions", "idx_possessions_game_id"} },
             rows \in StoredPossessions }
    \cup { [schema |-> FullSchema, games |-> << StoredGame >>, possessions |-> rows] :
             rows \in StoredPossessions }

\* The server process starts: startup() is about to run init_db.
StartInit ==
    /\ \E db \in StartDatabases :
          /\ schema = db.schema
          /\ games = db.games
          /\ possessions = db.possessions
    /\ dirty = NoDirty
    /\ lock = NoProc
    /\ req = [p \in Procs |->
                IF p = SeqProc
                THEN [Idle EXCEPT !.op = "init_db", !.pc = "id_games",
                                  !.pre = Snapshot, !.nth = 1]
                ELSE Idle]
    /\ acked = [c \in GameCids |-> SelectGameByCid(games, c)]
    /\ calls = 0

\* Startup, restarts, and the requests of one client between them.
StartNext == InitDbStep(SeqProc) \/ Step(SeqProc, TRUE, ConcGameIn, ConcLists)

StartSpec == StartInit /\ [][StartNext]_vars

\* -------------------------------------------------------------- properties
\* The client_ids stored in a table, and the rows that store client_id c.
RowsOf(table, c) == { k \in DOMAIN table : table[k].client_id = c }

\* C1: whatever create_game and sync requests were served, in whatever
\* interleaving, no game client_id is stored in two rows (committed or in an
\* open transaction), and every client_id for which create_game has returned
\* (to the client or to sync) is stored in exactly one committed row.
C1_OneGamePerClientId ==
    \A c \in GameCids :
        /\ Cardinality(RowsOf(games, c)) <= 1
        /\ Cardinality(RowsOf(dirty.games, c)) <= 1
        /\ acked[c] # 0 => Cardinality(RowsOf(games, c)) = 1

\* C1 witness: two requests raced on one new client_id, the store rejected the
\* second insert, and the client_id is stored once.
C1_Witness ==
    \E p \in Procs :
        /\ Done(p) /\ req[p].rejected
        /\ acked[req[p].game.client_id] # 0
        /\ Cardinality(RowsOf(games, req[p].game.client_id)) = 1

\* C2: every create_game call that returns for a client_id returns the id the
\* first such call returned; it returns created=true exactly when it is the
\* first call to return for that client_id.
C2_SameIdCreatedOnce ==
    \A p \in Procs :
        Ok(p) /\ req[p].op = "create_game" =>
            /\ req[p].id # 0
            /\ req[p].id = acked[req[p].game.client_id]
            /\ req[p].created <=> req[p].prior = 0
            /\ req[p].prior # 0 => req[p].id = req[p].prior

\* C2 witness: a later call for the client_id of a game that is not the newest
\* has returned the first call's id with created=false.
C2_Witness ==
    \E p \in Procs :
        /\ Ok(p) /\ req[p].op = "create_game"
        /\ ~req[p].created /\ req[p].prior # 0
        /\ req[p].id = req[p].prior
        /\ req[p].id < Len(games)

\* C3 (the claim as stated): a request whose INSERT INTO games the store
\* rejected for a duplicate client_id returns the stored game's id with
\* created=false, and does not fail.
C3_RaceTreatedAsExists ==
    \A p \in Procs :
        Done(p) /\ req[p].rejected =>
            /\ req[p].status = "ok"
            /\ ~req[p].created
            /\ req[p].id = SelectGameByCid(games, req[p].game.client_id)

IsPrefix(a, b) == Len(a) <= Len(b) /\ SubSeq(b, 1, Len(a)) = a

\* The rows a request has added to a table since it arrived.
Added(before, table) == { k \in DOMAIN table : k > Len(before) }

\* C4: when add_possessions is called twice in a row for an existing game with
\* a list of N possessions whose client_ids are pairwise distinct and not yet
\* stored (nth >= 2 marks the later calls of such a row), the first call
\* returns inserted = N, the second returns inserted = 0 and leaves the
\* possessions table as it found it.
C4_SecondCallInsertsNothing ==
    \A p \in Procs :
        ( Ok(p) /\ req[p].op = "add_possessions" /\ req[p].nth >= 2 )
        => /\ req[p].first.inserted = Len(req[p].list)
           /\ req[p].inserted = 0
           /\ possessions = req[p].pre.possessions

\* C4 witness: the second call has returned for a list of two possessions.
C4_Witness ==
    \E p \in Procs :
        /\ Ok(p) /\ req[p].op = "add_possessions" /\ req[p].nth = 2
        /\ Len(req[p].list) = 2
        /\ req[p].first.inserted = 2 /\ req[p].inserted = 0

\* C5: a call of add_possessions that returns has kept the rows stored before
\* it, has added behind them exactly one row for each distinct client_id of its
\* list that was not stored, each under the call's game_id, and returns the
\* number of rows added.
C5_AddsEachNewClientIdOnce ==
    \A p \in Procs :
        Ok(p) /\ req[p].op = "add_possessions" =>
            LET before == req[p].pre.possessions
                new == ListCids(req[p].list) \ Cids(before)
                added == Added(before, possessions)
            IN  /\ IsPrefix(before, possessions)
                /\ { possessions[k].client_id : k \in added } = new
                /\ Cardinality(added) = Cardinality(new)
                /\ \A k \in added : possessions[k].game_id = req[p].game_id
                /\ req[p].inserted = Cardinality(added)

\* C5 witness: of a list of two client_ids, one stored before the call and one
\* not, the call has added one row.
C5_Witness ==
    \E p \in Procs :
        /\ Ok(p) /\ req[p].op = "add_possessions"
        /\ Cardinality(ListCids(req[p].list)) = 2
        /\ Cardinality(ListCids(req[p].list) \cap Cids(req[p].pre.possessions)) = 1
        /\ req[p].inserted = 1
        /\ Len(possessions) = Len(req[p].pre.possessions) + 1

\* C6 (the claim as stated): add_possessions with a game_id that no stored game
\* has fails with NotFound, whatever the list, and changes neither table.
C6_UnknownGameIsNotFound ==
    \A p \in Procs :
        ( /\ Done(p) /\ req[p].op = "add_possessions"
          /\ req[p].status # "storage_error"
          /\ ~GameExists(req[p].pre.games, req[p].game_id) )
        => /\ req[p].status = "not_found"
           /\ games = req[p].pre.games
           /\ possessions = req[p].pre.possessions

\* C7: a sync whose game client_id and possession client_ids are new returns
\* created=true and the number of distinct possession client_ids; a sync of a
\* payload whose client_ids are all stored returns the id returned before,
\* created=false and 0, and changes neither table; so does every redelivery of
\* a payload that was new when it was first delivered.
C7_SyncAtMostOnce ==
    \A p \in Procs :
        Ok(p) /\ req[p].op = "sync" =>
            LET r == req[p]
                n == Cardinality(ListCids(r.list))
                repeated == /\ ~r.created /\ r.inserted = 0
                            /\ r.id = r.prior /\ r.id # 0
                            /\ games = r.pre.games
                            /\ possessions = r.pre.possessions
            IN  /\ Fresh(r) => r.created /\ r.inserted = n
                /\ ( /\ r.game.client_id \in Cids(r.pre.games)
                     /\ ListCids(r.list) \subseteq Cids(r.pre.possessions) )
                   => repeated
                /\ r.nth >= 2
                   => /\ r.first.created /\ r.first.inserted = n
                      /\ r.id = r.first.id
                      /\ repeated

\* C7 witness: a redelivery of a payload with two possessions, new at its first
\* delivery, has returned.
C7_Witness ==
    \E p \in Procs :
        /\ Ok(p) /\ req[p].op = "sync" /\ req[p].nth = 2
        /\ Cardinality(ListCids(req[p].list)) = 2
        /\ req[p].first.inserted = 2 /\ req[p].inserted = 0

\* C8: create_game, called directly or by sync, for a client_id that is stored
\* when the request arrives returns with the games table unchanged: the stored
\* row keeps its name, opponent, game_date and created_at.
C8_ExistingGameUntouched ==
    \A p \in Procs :
        ( /\ Ok(p) /\ req[p].op \in {"create_game", "sync"}
          /\ req[p].game.client_id \in Cids(req[p].pre.games) )
        => games = req[p].pre.games

\* C8 witness: a submission has returned whose name, opponent and game_date all
\* differ from those stored for its client_id.
C8_Witness ==
    \E p \in Procs :
        /\ Ok(p) /\ req[p].op = "create_game"
        /\ \E k \in DOMAIN req[p].pre.games :
              LET row == req[p].pre.games[k]
              IN  /\ row.client_id = req[p].game.client_id
                  /\ row.name # req[p].game.name
                  /\ row.opponent # req[p].game.opponent
                  /\ row.game_date # req[p].game.game_date
                  /\ games[k] = row

\* C9: add_possessions and sync leave every possession stored when the request
\* arrived as it was, game_id and fields; a client_id stored then is neither
\* an error (for an existing game the request returns) nor counted in inserted.
C9_StoredPossessionUntouched ==
    \A p \in Procs :
        Done(p) /\ req[p].op \in {"add_possessions", "sync"} =>
            LET before == req[p].pre.possessions
                new == ListCids(req[p].list) \ Cids(before)
            IN  /\ IsPrefix(before, possessions)
                /\ Len(possessions) <= Len(before) + Cardinality(new)
                /\ req[p].status # "integrity_error" \/ req[p].rejected
                /\ req[p].status = "ok" => req[p].inserted <= Cardinality(new)
                /\ ( /\ req[p].op = "add_possessions"
                     /\ GameExists(req[p].pre.games, req[p].game_id)
                     /\ req[p].status # "storage_error" )
                   => req[p].status = "ok"

\* C9 witness: a request has returned that sent a stored client_id with other
\* field values and under another, existing game.
C9_Witness ==
    \E p \in Procs :
        /\ Ok(p) /\ req[p].op = "add_possessions" /\ req[p].inserted = 0
        /\ \E i \in DOMAIN req[p].list, k \in DOMAIN req[p].pre.possessions :
              LET row == req[p].pre.possessions[k]
                  x == req[p].list[i]
              IN  /\ row.client_id = x.client_id
                  /\ row.game_id # req[p].game_id
                  /\ row.number # x.number /\ row.outcome # x.outcome
                  /\ possessions[k] = row

\* The integer a CSV field of digits stands for.
Num(field) == CHOOSE n \in 0..4 : Str(n) = field

\* C10: export_csv of a stored game returns one data row for each stored
\* possession of that game and none for any other, in non-decreasing order of
\* the possession number; export_csv of a game_id that is not stored fails with
\* NotFound.
C10_ExportRowsOfGameInOrder ==
    \A p \in Procs :
        ( Done(p) /\ req[p].op = "export_csv" /\ req[p].status # "storage_error" )
        => IF GameExists(req[p].pre.games, req[p].game_id)
           THEN LET rows == req[p].rows
                    mine == { k \in DOMAIN possessions :
                                possessions[k].game_id = req[p].game_id }
                IN  /\ req[p].status = "ok"
                    /\ \E f \in [DOMAIN rows -> mine] :
                          /\ \A k \in mine : \E a \in DOMAIN rows : f[a] = k
                          /\ \A a, b \in DOMAIN rows : a # b => f[a] # f[b]
                          /\ \A a \in DOMAIN rows : rows[a] = CsvRow(possessions[f[a]])
                    /\ \A a, b \in DOMAIN rows : a < b => Num(rows[a][1]) <= Num(rows[b][1])
           ELSE req[p].status = "not_found"

\* C10 witness: an export has returned the two possessions of its game, stored
\* by two requests with the larger number first.
C10_Witness ==
    \E p \in Procs :
        /\ Ok(p) /\ req[p].op = "export_csv" /\ Len(req[p].rows) = 2
        /\ Len(possessions) = 2
        /\ possessions[1].number > possessions[2].number
        /\ Num(req[p].rows[1][1]) < Num(req[p].rows[2][1])

\* C11: every data row of an export_csv response is the rendering of a stored
\* possession of the game: paint_touch is "yes" exactly when the stored flag is
\* true and "no" otherwise, points is the empty string exactly when the stored
\* points is null (a stored 0 is rendered "0"), and notes is the empty string
\* when the stored notes is null.
C11_CsvRendering ==
    \A p \in Procs :
        Ok(p) /\ req[p].op = "export_csv" =>
            \A a \in DOMAIN req[p].rows :
                \E k \in DOMAIN possessions :
                    LET row == possessions[k]
                        out == req[p].rows[a]
                    IN  /\ row.game_id = req[p].game_id
                        /\ out[7] = row.timestamp /\ out[5] = row.outcome
                        /\ out[3] = "yes" <=> row.paint_touch = 1
                        /\ out[3] = "no" <=> row.paint_touch = 0
                        /\ out[4] = "" <=> row.points = None
                        /\ row.points = Some(0) => out[4] = "0"
                        /\ row.notes = None => out[6] = ""

\* C11 witness: an export holds a row of a possession with paint_touch false,
\* points 0 and no notes, and a row of one with paint_touch true and no points.
C11_Witness ==
    \E p \in Procs :
        /\ Ok(p) /\ req[p].op = "export_csv"
        /\ \E a, b \in DOMAIN req[p].rows :
              /\ req[p].rows[a][3] = "no" /\ req[p].rows[a][4] = "0"
              /\ req[p].rows[a][6] = ""
              /\ req[p].rows[b][3] = "yes" /\ req[p].rows[b][4] = ""
        /\ \E k \in DOMAIN possessions :
              possessions[k].points = Some(0) /\ possessions[k].notes = None

\* C12: list_games returns every stored game exactly once, with created_at not
\* increasing along the list: a game created by a later call is not listed
\* after a game created by an earlier call with a smaller timestamp.
C12_ListGamesNewestFirst ==
    \A p \in Procs :
        Ok(p) /\ req[p].op = "list_games" =>
            LET rows == req[p].rows
            IN  /\ Len(rows) = Len(games)
                /\ \A k \in DOMAIN games :
                      Cardinality({ a \in DOMAIN rows : rows[a] = games[k] }) = 1
                /\ \A a, b \in DOMAIN rows :
                      a < b => rows[a].created_at >= rows[b].created_at
                /\ \A i, j \in DOMAIN games :
                      i < j /\ games[i].created_at < games[j].created_at
                      => \A a, b \in DOMAIN rows :
                            rows[a] = games[j] /\ rows[b] = games[i] => a < b

\* C12 witness: two games created at different times are listed, the later
\* one first.
C12_Witness ==
    \E p \in Procs :
        /\ Ok(p) /\ req[p].op = "list_games"
        /\ Len(games) = 2 /\ Len(req[p].rows) = 2
        /\ games[1].created_at < games[2].created_at
        /\ req[p].rows[1] = games[2] /\ req[p].rows[2] = games[1]

\* C13: whenever init_db returns, on whatever database file and however often
\* it has run before, the tables, the index and the points column exist, the
\* games rows are those it found, and every possessions row is the one it
\* found, with NULL in the points column if the row had no such column.
C13_InitDbKeepsRows ==
    \A p \in Procs :
        Ok(p) /\ req[p].op = "init_db" =>
            /\ schema = FullSchema
            /\ games = req[p].pre.games
            /\ Len(possessions) = Len(req[p].pre.possessions)
            /\ \A k \in DOMAIN req[p].pre.possessions :
                  LET old == req[p].pre.possessions[k]
                      new == possessions[k]
                  IN  /\ DOMAIN new = DOMAIN old \cup {"points"}
                      /\ \A f \in DOMAIN old : new[f] = old[f]
                      /\ "points" \notin DOMAIN old => new.points = None

\* C13 witness: init_db has returned on a database whose possessions table held
\* a row and had no points column.
C13_Witness ==
    \E p \in Procs :
        /\ Ok(p) /\ req[p].op = "init_db"
        /\ Len(req[p].pre.possessions) = 1
        /\ "points" \notin DOMAIN req[p].pre.possessions[1]
        /\ Len(possessions) = 1 /\ possessions[1].points = None
        /\ "points" \in schema

\* C14: a sync that fails with a storage error in its possession step after
\* its game step has created the game leaves the game row stored and no
\* possession of the payload; the retry of the payload then returns the game's
\* id with created=false and inserted_possessions equal to the number of
\* possessions (distinct client_ids) of the payload.
C14_GameSurvivesFailedPossessionStep ==
    \A p \in Procs :
        LET r == req[p]
        IN  /\ ( Done(p) /\ r.op = "sync" /\ r.status = "storage_error" /\ r.created )
               => /\ SelectGameByCid(games, r.game.client_id) = r.id
                  /\ r.id # 0
                  /\ possessions = r.pre.possessions
            /\ ( Ok(p) /\ r.op = "sync" /\ r.retry )
               => /\ ~r.created
                  /\ r.id = SelectGameByCid(r.pre.games, r.game.client_id)
                  /\ r.id # 0
                  /\ r.inserted = Cardinality(ListCids(r.list))
                  /\ Len(possessions) = Len(r.pre.possessions) + r.inserted

\* C14 witness: the retry of a payload of two possessions has returned.
C14_Witness ==
    \E p \in Procs :
        /\ Ok(p) /\ req[p].op = "sync" /\ req[p].retry
        /\ ~req[p].created /\ req[p].inserted = 2
        /\ Len(req[p].list) = 2

\* C15: the possessions table that other connections read changes only when a
\* call of add_possessions returns, and then by all the rows the call has
\* inserted at once; a call that fails with a storage error leaves the table
\* as it is and nothing of its transaction behind; list_games and export_csv
\* read the committed tables only, so they see all of a call's rows or none.
C15_AddPossessionsAllOrNothing ==
    /\ [](\A p \in Procs :
            req[p].op \in {"list_games", "export_csv"} =>
                /\ lock # p
                /\ PossSeen(p) = possessions /\ GamesSeen(p) = games)
    /\ [][ /\ possessions' # possessions =>
                \E q \in Procs :
                    /\ req[q].pc = "ap_commit" /\ lock = q
                    /\ req'[q].pc = "done" /\ req'[q].status = "ok"
                    /\ possessions' = dirty.possessions
                    /\ IsPrefix(possessions, possessions')
                    /\ Len(possessions') = Len(possessions) + req'[q].inserted
            /\ \A p \in Procs :
                  ( req[p].pc \in {"ap_select", "ap_insert", "ap_commit"}
                    /\ req'[p].status = "storage_error" )
                  => /\ possessions' = possessions
                     /\ lock' # p
                     /\ lock = p => dirty' = NoDirty ]_vars

\* C15 witness: export_csv has returned no row of a game while a call for that
\* game had inserted the first of its two possessions and not yet returned.
C15_Witness ==
    \E p, q \in Procs :
        /\ Ok(p) /\ req[p].op = "export_csv" /\ req[p].rows = <<>>
        /\ lock = q /\ req[q].pc = "ap_insert" /\ req[q].i = 2
        /\ req[q].inserted = 1 /\ req[q].game_id = req[p].game_id
        /\ Len(dirty.possessions) = 1 /\ possessions = <<>>

\* C16 (the claim as stated): when an operation has returned or raised, no
\* connection it has opened is still open.
C16_ConnectionsReleased ==
    \A p \in Procs : Done(p) => req[p].conns = 0

\* C17: in every reachable state, whatever create_game, add_possessions and
\* sync requests were served and however they interleaved, the game_id of
\* every stored possession is the id of a stored game and no possession
\* client_id is stored twice (so it is stored under one game), in the
\* committed tables and in those of an open transaction.
C17_ReferentialIntegrity ==
    /\ \A k \in DOMAIN possessions :
          /\ \E g \in DOMAIN games : games[g].id = possessions[k].game_id
          /\ \A j \in DOMAIN possessions :
                possessions[j].client_id = possessions[k].client_id => j = k
    /\ \A k \in DOMAIN dirty.possessions :
          /\ \E g \in DOMAIN dirty.games :
                dirty.games[g].id = dirty.possessions[k].game_id
          /\ \A j \in DOMAIN dirty.possessions :
                dirty.possessions[j].client_id = dirty.possessions[k].client_id
                => j = k

\* C17 witness: possessions are stored under two games, and a request for a
\* possession stored under the other game has returned.
C17_Witness ==
    /\ Len(games) = 2 /\ Len(possessions) = 2
    /\ possessions[1].game_id # possessions[2].game_id
    /\ \E p \in Procs :
          /\ Ok(p) /\ req[p].op = "sync" /\ req[p].created
          /\ req[p].inserted = 1 /\ Len(req[p].list) = 2

\* What a finished request reports as inserted: nothing if it failed.
Reported(p) == IF req[p].status = "ok" THEN req[p].inserted ELSE 0

\* C18: when two add_possessions/sync requests whose lists share a possession
\* client_id have run concurrently (both arrived at the same possessions
\* table), then however their statements interleaved: the only constraint
\* failure either may have met is that of its game insert; the inserted
\* counts they return add up to the number of rows added to the table; and if
\* both returned, every client_id of either list is stored exactly once.
C18_ConcurrentOverlapStoredOnce ==
    \A p, q \in Procs :
        ( /\ p # q /\ Done(p) /\ Done(q)
          /\ req[p].op \in {"add_possessions", "sync"}
          /\ req[q].op \in {"add_possessions", "sync"}
          /\ ListCids(req[p].list) \cap ListCids(req[q].list) # {}
          /\ req[p].pre.possessions = req[q].pre.possessions )
        => /\ req[p].status = "integrity_error" => req[p].rejected
           /\ IsPrefix(req[p].pre.possessions, possessions)
           /\ Reported(p) + Reported(q)
                 = Len(possessions) - Len(req[p].pre.possessions)
           /\ ( Ok(p) /\ Ok(q) ) =>
                 \A c \in ListCids(req[p].list) \cup ListCids(req[q].list) :
                     Cardinality(RowsOf(possessions, c)) = 1

\* C18 witness: two requests that arrived at the same table have both
\* returned; one has inserted a possession the other sent too, the other has
\* inserted the rest of its list.
C18_Witness ==
    \E p, q \in Procs :
        /\ p # q /\ Ok(p) /\ Ok(q)
        /\ req[p].op = "sync" /\ req[q].op = "sync"
        /\ req[p].pre.possessions = req[q].pre.possessions
        /\ ListCids(req[p].list) \cap ListCids(req[q].list) # {}
        /\ req[p].inserted = 1
        /\ Cardinality(ListCids(req[q].list)) = 2 /\ req[q].inserted = 1
        /\ Len(possessions) = Len(req[p].pre.possessions) + 2

\* C19: a sync request of a sequential client never fails with NotFound: while
\* its possession step runs, the game_id its game step returned is the id of
\* a stored game; and a sync with an empty possessions list returns
\* inserted_possessions = 0 with the game stored, created if it was not.
C19_SyncNeverNotFound ==
    \A p \in Procs :
        req[p].op = "sync" =>
            LET r == req[p]
                stored == { g \in DOMAIN games : games[g].client_id = r.game.client_id }
            IN  /\ Done(p) => r.status # "not_found"
                /\ r.pc \in {"ap_select", "ap_insert", "ap_commit"} =>
                      \E g \in stored : games[g].id = r.game_id
                /\ ( Ok(p) /\ r.list = <<>> ) =>
                      /\ r.inserted = 0
                      /\ \E g \in stored : games[g].id = r.id
                      /\ r.created <=> r.game.client_id \notin Cids(r.pre.games)
                      /\ possessions = r.pre.possessions

\* C19 witness: a sync with an empty list has created the second game.
C19_Witness ==
    \E p \in Procs :
        /\ Ok(p) /\ req[p].op = "sync" /\ req[p].list = <<>>
        /\ req[p].created /\ req[p].inserted = 0
        /\ req[p].id = 2 /\ Len(games) = 2 /\ Len(req[p].pre.games) = 1

====
